---------------------------- MODULE Spec2Model ----------------------------
(***************************************************************************)
(* Model of src/main.py: a FastAPI service that enriches rows of the       *)
(* 'competitors' table with generated loyalty-program summaries.           *)
(*                                                                         *)
(* The table lives in an external store shared by every worker process of  *)
(* the service.  A handler is a coroutine without await points, so inside  *)
(* one event loop a request runs to completion; requests served by         *)
(* different workers interleave at the granularity of the external calls   *)
(* (store select, completion call, store update).  Each such call is one   *)
(* step of the model.                                                      *)
(*                                                                         *)
(* Strings are sequences of one-character strings.  An Optional value is   *)
(* a sequence of length 0 (None / SQL null) or 1 (a value).                *)
(***************************************************************************)
EXTENDS Integers, Sequences, FiniteSets, TLC

\* ------------------------------------------------------------------ bounds
MaxId  == 2      \* ids 1..MaxId may have a row in the table
MaxReq == 2      \* number of HTTP requests served
MaxLen == 2      \* longest content the Completion Client returns

Ids      == 1..MaxId
PathIds  == 1..(MaxId + 1)        \* MaxId + 1 never has a row
Reqs     == 1..MaxReq
Chars    == {" ", "a"}
Contents == UNION {[1..k -> Chars] : k \in 0..MaxLen}

Null     == <<>>
Some(v)  == <<v>>

NameOf(i) == <<"competitor", i>>

VARIABLES
    table,               \* the 'competitors' table: a set of rows, ids unique
    pc,                  \* per request: "idle", "gen", "write", "done"
    kind,                \* per request: "none", "single", "all"
    competitor_id,       \* per request: path parameter of /update-single
    data,                \* per request: response.data of the first store call
    idx,                 \* per request: position of the loop in data
    summary,             \* per request: local 'summary' of update_competitor_summary
    updated_competitors, \* per request: list built by /update-all
    response,            \* per request: the HTTP response, code 0 while pending
    log,                 \* history: the external calls each request issued
    lastWriter,          \* history: per id, the request whose update last changed it
    lastGen              \* history: per id, the text generated most recently

vars == <<table, pc, kind, competitor_id, data, idx, summary,
          updated_competitors, response, log, lastWriter, lastGen>>

\* ------------------------------------------------------ str.strip (line 70)
RECURSIVE lstrip(_)
lstrip(s) ==
    IF s # <<>> /\ Head(s) = " " THEN lstrip(Tail(s)) ELSE s

RECURSIVE rstrip(_)
rstrip(s) ==
    IF s # <<>> /\ s[Len(s)] = " " THEN rstrip(SubSeq(s, 1, Len(s) - 1)) ELSE s

strip(s) == rstrip(lstrip(s))

\* ------------------------------------------------- Completion Client (62-68)
\* What client.chat.completions.create can do: raise, or return a response
\* whose choices list is empty, or holds a message with content None or a str.
CompletionOutcomes ==
    {[raised |-> TRUE, choices |-> <<>>]}
    \cup {[raised |-> FALSE, choices |-> <<>>]}
    \cup {[raised |-> FALSE, choices |-> <<[content |-> Null]>>]}
    \cup {[raised |-> FALSE, choices |-> <<[content |-> Some(c)]>>] : c \in Contents}

\* The call succeeded: it returned a choice with text content.
CompletionSucceeded(completion) ==
    /\ ~completion.raised
    /\ completion.choices # <<>>
    /\ completion.choices[1].content # Null

Raise(e)  == [ok |-> FALSE, error |-> e]
Return(v) == [ok |-> TRUE, value |-> v]

\* get_loyalty_program_summary that answers a failed call with an empty text.
get_loyalty_program_summary_fallback(competitor_name, completion) ==
    IF completion.raised THEN Return(<<>>)
    ELSE IF completion.choices = <<>> THEN Return(<<>>)
    ELSE IF completion.choices[1].content = Null THEN Return(<<>>)
    ELSE Return(strip(completion.choices[1].content[1]))

get_loyalty_program_summary(competitor_name, completion) ==
    IF completion.raised THEN Raise("APIError")
    ELSE IF completion.choices = <<>> THEN Raise("IndexError")
    ELSE IF completion.choices[1].content = Null THEN Raise("AttributeError")
    ELSE Return(strip(completion.choices[1].content[1]))

\* ------------------------------------------------------------ Record Store
Row(i, s) == [id |-> i, competitor_name |-> NameOf(i), program_summary |-> s]

\* select('*').eq('id', id): the matching rows as a list (ids are unique).
SelectEq(t, id) ==
    IF \E row \in t : row.id = id
    THEN <<CHOOSE row \in t : row.id = id>>
    ELSE <<>>

\* select('id, competitor_name').is_('program_summary', 'null'): the set of
\* projected rows; the store returns them in an order of its choosing.
SelectIsNull(t) ==
    {[id |-> row.id, competitor_name |-> row.competitor_name] :
        row \in {x \in t : x.program_summary = Null}}

Orderings(S) ==
    {f \in [1..Cardinality(S) -> S] : \A i, j \in DOMAIN f : i # j => f[i] # f[j]}

\* update without the eq filter: every row gets the summary.
UpdateEq_nofilter(t, id, s) ==
    {[row EXCEPT !.program_summary = Some(s)] : row \in t}

\* update that stores the summary short of its last character.
UpdateEq_partial(t, id, s) ==
    {IF row.id = id
     THEN [row EXCEPT !.program_summary = Some(SubSeq(s, 1, Len(s) - 1))]
     ELSE row : row \in t}

\* update({'program_summary': s}).eq('id', id): the table afterwards.
UpdateEq(t, id, s) ==
    {IF row.id = id THEN [row EXCEPT !.program_summary = Some(s)] ELSE row :
        row \in t}

\* ------------------------------------------------------------------- Init
Pending == [code |-> 0]

Init ==
    /\ table = {Row(i, Null) : i \in Ids}
    /\ pc = [r \in Reqs |-> "idle"]
    /\ kind = [r \in Reqs |-> "none"]
    /\ competitor_id = [r \in Reqs |-> 0]
    /\ data = [r \in Reqs |-> <<>>]
    /\ idx = [r \in Reqs |-> 0]
    /\ summary = [r \in Reqs |-> <<>>]
    /\ updated_competitors = [r \in Reqs |-> <<>>]
    /\ response = [r \in Reqs |-> Pending]
    /\ log = [r \in Reqs |-> <<>>]
    /\ lastWriter = [i \in Ids |-> 0]
    /\ lastGen = [i \in Ids |-> Null]


\* ------------------------------------------------------------ HTTP Surface
\* A log entry: the call, the id it is about, the loop position it was issued
\* at, whether the collaborator answered successfully, the text generated or
\* written, and the number of rows the store returned.
Call(o, i, k, good, t, rows) ==
    [op |-> o, id |-> i, i |-> k, ok |-> good, text |-> t, n |-> rows]

\* except Exception as e: raise HTTPException(500, detail=str(e)) (113-115).
\* HTTPException is itself an Exception, so the 404 raised at line 106 inside
\* the try block is caught here as well; e is str(e).
SingleExcept(e) == [code |-> 500, detail |-> e]

\* except Exception of /update-all's outer try (147-149).
AllExcept(e) == [code |-> 500, detail |-> e]

\* The loop walking response.data from its end.
Competitor_reversed(r) == data[r][Len(data[r]) - idx[r] + 1]

\* The row the request is working on: response.data[0] (108), or the loop
\* variable of 'for competitor in response.data' (133).
Competitor(r) == data[r][idx[r]]

\* The id the update is filtered by: the path parameter (109), or
\* competitor['id'] (135).
TargetId(r) == IF kind[r] = "single" THEN competitor_id[r] ELSE Competitor(r).id

\* The loop of /update-all moves on after a row (133-145): to the next row, or
\* to the response once the list is exhausted.
Continue(r, upd) ==
    /\ updated_competitors' = [updated_competitors EXCEPT ![r] = upd]
    /\ IF idx[r] < Len(data[r])
       THEN /\ idx' = [idx EXCEPT ![r] = idx[r] + 1]
            /\ pc' = [pc EXCEPT ![r] = "gen"]
            /\ UNCHANGED response
       ELSE /\ pc' = [pc EXCEPT ![r] = "done"]
            /\ response' = [response EXCEPT ![r] =
                   [code |-> 200, status |-> "success",
                    total_processed |-> Len(upd), updated_competitors |-> upd]]
            /\ UNCHANGED idx

\* /update-all without the inner try: a row's exception reaches the outer except.
Failed_raise(r, e) ==
    /\ pc' = [pc EXCEPT ![r] = "done"]
    /\ response' = [response EXCEPT ![r] =
           IF kind[r] = "single" THEN SingleExcept(e) ELSE AllExcept(e)]
    /\ UNCHANGED <<idx, updated_competitors>>

\* /update-all leaving the loop at the first row that fails.
Failed_break(r, e) ==
    /\ pc' = [pc EXCEPT ![r] = "done"]
    /\ response' = [response EXCEPT ![r] =
           IF kind[r] = "single" THEN SingleExcept(e)
           ELSE [code |-> 200, status |-> "success",
                 total_processed |-> Len(updated_competitors[r]),
                 updated_competitors |-> updated_competitors[r]]]
    /\ UNCHANGED <<idx, updated_competitors>>

\* A failed row is tried again from its generation.
Failed_retry(r, e) ==
    /\ pc' = [pc EXCEPT ![r] = "gen"]
    /\ UNCHANGED <<idx, updated_competitors, response>>

\* An exception leaves update_competitor_summary: /update-single answers 500
\* (113-115), /update-all logs it and goes on with the next row (138-139).
Failed(r, e) ==
    IF kind[r] = "single"
    THEN /\ pc' = [pc EXCEPT ![r] = "done"]
         /\ response' = [response EXCEPT ![r] = SingleExcept(e)]
         /\ UNCHANGED <<idx, updated_competitors>>
    ELSE Continue(r, updated_competitors[r])

\* /update-all's answer to an empty listing, without the short-circuit of 126.
NoCompetitorsResponse_noshort ==
    [code |-> 200, status |-> "success", total_processed |-> 0,
     updated_competitors |-> <<>>]

\* return {"status": "No competitors found needing updates"} (126-128)
NoCompetitorsResponse ==
    [code |-> 200, status |-> "No competitors found needing updates"]

\* Requests are numbered in their order of arrival.
Arrives(r) == pc[r] = "idle" /\ (IF r = 1 THEN TRUE ELSE pc[r - 1] # "idle")

\* POST /update-single/{id}: the select of lines 102-108.
UpdateSingleSelect(r, id, storeOk) ==
    /\ Arrives(r)
    /\ kind' = [kind EXCEPT ![r] = "single"]
    /\ competitor_id' = [competitor_id EXCEPT ![r] = id]
    /\ log' = [log EXCEPT ![r] = Append(@,
           Call("select", id, 0, storeOk, Null,
                IF storeOk THEN Len(SelectEq(table, id)) ELSE 0))]
    /\ IF ~storeOk
       THEN /\ response' = [response EXCEPT ![r] = SingleExcept("StoreError")]
            /\ pc' = [pc EXCEPT ![r] = "done"]
            /\ UNCHANGED <<data, idx>>
       ELSE IF SelectEq(table, id) = <<>>
       THEN /\ response' = [response EXCEPT ![r] =
                   SingleExcept("404: Competitor not found")]
            /\ pc' = [pc EXCEPT ![r] = "done"]
            /\ UNCHANGED <<data, idx>>
       ELSE /\ data' = [data EXCEPT ![r] = SelectEq(table, id)]
            /\ idx' = [idx EXCEPT ![r] = 1]
            /\ pc' = [pc EXCEPT ![r] = "gen"]
            /\ UNCHANGED response
    /\ UNCHANGED <<table, summary, updated_competitors, lastWriter, lastGen>>

\* POST /update-all: the listing of lines 124-131.
UpdateAllList(r, storeOk, order) ==
    /\ Arrives(r)
    /\ kind' = [kind EXCEPT ![r] = "all"]
    /\ log' = [log EXCEPT ![r] = Append(@,
           Call("list", 0, 0, storeOk, Null, IF storeOk THEN Len(order) ELSE 0))]
    /\ IF ~storeOk
       THEN /\ response' = [response EXCEPT ![r] = AllExcept("StoreError")]
            /\ pc' = [pc EXCEPT ![r] = "done"]
            /\ UNCHANGED <<data, idx>>
       ELSE IF order = <<>>
       THEN /\ response' = [response EXCEPT ![r] = NoCompetitorsResponse]
            /\ pc' = [pc EXCEPT ![r] = "done"]
            /\ UNCHANGED <<data, idx>>
       ELSE /\ data' = [data EXCEPT ![r] = order]
            /\ idx' = [idx EXCEPT ![r] = 1]
            /\ pc' = [pc EXCEPT ![r] = "gen"]
            /\ UNCHANGED response
    /\ UNCHANGED <<table, competitor_id, summary, updated_competitors,
                   lastWriter, lastGen>>

\* update_competitor_summary, line 77: the completion call.
Generate(r, completion) ==
    /\ pc[r] = "gen"
    /\ LET res == get_loyalty_program_summary(Competitor(r).competitor_name,
                                              completion)
       IN  IF res.ok
           THEN /\ summary' = [summary EXCEPT ![r] = res.value]
                /\ pc' = [pc EXCEPT ![r] = "write"]
                /\ lastGen' = [lastGen EXCEPT ![Competitor(r).id] = Some(res.value)]
                /\ log' = [log EXCEPT ![r] = Append(@,
                       Call("complete", Competitor(r).id, idx[r],
                            CompletionSucceeded(completion), Some(res.value), 0))]
                /\ UNCHANGED <<idx, updated_competitors, response>>
           ELSE /\ Failed(r, res.error)
                /\ log' = [log EXCEPT ![r] = Append(@,
                       Call("complete", Competitor(r).id, idx[r],
                            CompletionSucceeded(completion), Null, 0))]
                /\ UNCHANGED <<summary, lastGen>>
    /\ UNCHANGED <<table, kind, competitor_id, data, lastWriter>>

\* update_competitor_summary, lines 79-86: the store update, response.data[0]
\* and the caller's use of the returned record.
Write(r, storeOk) ==
    /\ pc[r] = "write"
    /\ LET id    == TargetId(r)
           after == UpdateEq(table, id, summary[r])
           rows  == SelectEq(after, id)       \* response.data
       IN  /\ log' = [log EXCEPT ![r] = Append(@,
                  Call("update", id, idx[r], storeOk /\ rows # <<>>,
                       Some(summary[r]), IF storeOk THEN Len(rows) ELSE 0))]
           /\ IF ~storeOk
              THEN /\ Failed(r, "StoreError")
                   /\ UNCHANGED <<table, lastWriter>>
              ELSE IF rows = <<>>
              THEN /\ Failed(r, "IndexError")
                   /\ table' = after
                   /\ UNCHANGED lastWriter
              ELSE /\ table' = after
                   /\ lastWriter' = [lastWriter EXCEPT ![id] = r]
                   /\ IF kind[r] = "single"
                      THEN /\ pc' = [pc EXCEPT ![r] = "done"]
                           /\ response' = [response EXCEPT ![r] =
                                  [code |-> 200, body |-> rows[1]]]
                           /\ UNCHANGED <<idx, updated_competitors>>
                      ELSE Continue(r, Append(updated_competitors[r], rows[1]))
    /\ UNCHANGED <<kind, competitor_id, data, summary, lastGen>>

\* Rows are deleted outside the service's control.
ExternalDelete(i) ==
    /\ \E row \in table : row.id = i
    /\ table' = {row \in table : row.id # i}
    /\ UNCHANGED <<pc, kind, competitor_id, data, idx, summary,
                   updated_competitors, response, log, lastWriter, lastGen>>

Next ==
    \/ \E r \in Reqs, id \in PathIds, storeOk \in BOOLEAN :
           UpdateSingleSelect(r, id, storeOk)
    \/ \E r \in Reqs, storeOk \in BOOLEAN :
           \E order \in Orderings(SelectIsNull(table)) :
               UpdateAllList(r, storeOk, order)
    \/ \E r \in Reqs, completion \in CompletionOutcomes : Generate(r, completion)
    \/ \E r \in Reqs, storeOk \in BOOLEAN : Write(r, storeOk)
    \/ \E i \in Ids : ExternalDelete(i)

Spec == Init /\ [][Next]_vars


\* ------------------------------------------------------------------ claims
Done(r) == pc[r] = "done"
Last(l) == l[Len(l)]
CallsOf(l, o) == {k \in DOMAIN l : l[k].op = o}
FailedCalls(l, o) == {k \in CallsOf(l, o) : ~l[k].ok}
IdsOf(rows) == [k \in DOMAIN rows |-> rows[k].id]
NonEmptyString(opt) == opt # Null /\ opt[1] # <<>>

\* The request found no row for its id: its select succeeded and returned
\* an empty list.
UnknownId(r) ==
    /\ kind[r] = "single"
    /\ Done(r)
    /\ log[r][1].ok
    /\ log[r][1].n = 0

\* C1: for every id that has no row in the store, POST /update-single/{id}
\* responds 404 (not 500), and calls neither the Completion Client nor the
\* store's update.
C1_UnknownIdAnswers404 ==
    \A r \in Reqs :
        UnknownId(r) =>
            /\ response[r].code = 404
            /\ CallsOf(log[r], "complete") = {}
            /\ CallsOf(log[r], "update") = {}

\* C2: when the Completion Client fails while POST /update-single/{id} works
\* on a known id, the request answers 500, the failing step leaves the table
\* as it was, and the request has issued no store update.
C2_CompletionFailureAnswers500NoWrite ==
    [][\A r \in Reqs :
          (/\ kind[r] = "single"
           /\ pc[r] = "gen"
           /\ log'[r] # log[r]
           /\ Last(log'[r]).op = "complete"
           /\ ~Last(log'[r]).ok)
          => /\ pc'[r] = "done"
             /\ response'[r].code = 500
             /\ table' = table
             /\ CallsOf(log'[r], "update") = {}]_vars

C2_Witness ==
    \E r \in Reqs :
        /\ kind[r] = "single"
        /\ Done(r)
        /\ Len(log[r]) = 2
        /\ log[r][2].op = "complete"
        /\ ~log[r][2].ok
        /\ response[r].code = 500
        /\ \E row \in table : row.id = competitor_id[r] /\ row.program_summary = Null

\* The case of C3: the listing returned rows, generation failed for exactly
\* one of them, and nothing else failed.
OneGenerationFailure(r) ==
    /\ kind[r] = "all"
    /\ Done(r)
    /\ log[r][1].ok
    /\ Len(data[r]) >= 1
    /\ Cardinality(FailedCalls(log[r], "complete")) = 1
    /\ FailedCalls(log[r], "update") = {}

FailingCall(r) == CHOOSE k \in FailedCalls(log[r], "complete") : TRUE

\* s without its element at position k
Without(s, k) == SubSeq(s, 1, k - 1) \o SubSeq(s, k + 1, Len(s))

\* C3: when POST /update-all lists N rows and generation fails for exactly one
\* of them, at any position, the response is 200 with total_processed = N-1
\* and updated_competitors holding exactly the other rows; every listed row
\* got its generation call, no update was issued for the failing row, and its
\* program_summary is still null unless another request wrote it.
C3_OneFailureIsIsolated ==
    \A r \in Reqs :
        OneGenerationFailure(r) =>
            LET f == log[r][FailingCall(r)]
            IN  /\ response[r].code = 200
                /\ response[r].total_processed = Len(data[r]) - 1
                /\ IdsOf(response[r].updated_competitors)
                       = Without(IdsOf(data[r]), f.i)
                /\ \A i \in DOMAIN data[r] :
                       \E k \in CallsOf(log[r], "complete") : log[r][k].i = i
                /\ \A k \in CallsOf(log[r], "update") : log[r][k].id # f.id
                /\ \A row \in table :
                       (row.id = f.id /\ lastWriter[f.id] = 0)
                           => row.program_summary = Null

\* A batch of two rows whose first generation failed and whose second row
\* was written.
C3_Witness ==
    \E r \in Reqs :
        /\ OneGenerationFailure(r)
        /\ Len(data[r]) = 2
        /\ log[r][FailingCall(r)].i = 1
        /\ response[r].total_processed = 1
        /\ \E row \in table :
               row.id = log[r][FailingCall(r)].id /\ row.program_summary = Null

\* The case of C4: the request's completion call succeeded and its store
\* update returned the row.
GeneratedAndWritten(r) ==
    /\ kind[r] = "single"
    /\ Done(r)
    /\ Len(log[r]) = 3
    /\ log[r][2].op = "complete" /\ log[r][2].ok
    /\ log[r][3].op = "update" /\ log[r][3].ok

\* C4: for every known id, when the Completion Client call succeeds, POST
\* /update-single/{id} responds 200 and the returned record's program_summary
\* is a non-empty string, whatever text the client returned.
C4_SuccessReturnsNonEmptySummary ==
    \A r \in Reqs :
        GeneratedAndWritten(r) =>
            /\ response[r].code = 200
            /\ NonEmptyString(response[r].body.program_summary)

\* The texts request r generated for the row id.
GeneratedTexts(r, id) ==
    {log[r][k].text :
        k \in {j \in CallsOf(log[r], "complete") : log[r][j].id = id /\ log[r][j].ok}}

\* No generated text for the row id awaits its update, and no update of the
\* row has failed: every text generated for id has been written.
AllGenerationsWritten(id) ==
    \A r \in Reqs :
        /\ ~(pc[r] = "write" /\ TargetId(r) = id)
        /\ \A k \in FailedCalls(log[r], "update") : log[r][k].id # id

\* C5 as stated: for every id written by the service, the stored
\* program_summary is the text of the most recent successful generation for
\* that id, concurrent requests on the same id included.  (Stated for the
\* states in which every generated text has been written.)
C5_StoredIsMostRecentGeneration ==
    \A row \in table :
        (lastWriter[row.id] # 0 /\ AllGenerationsWritten(row.id))
            => row.program_summary = lastGen[row.id]

\* C5 amended: for every id written by the service, the stored program_summary
\* is the one text that the request whose update of that id succeeded last
\* generated for that id (last write wins).
C5_StoredIsLastWritersGeneration ==
    \A row \in table :
        lastWriter[row.id] # 0 =>
            GeneratedTexts(lastWriter[row.id], row.id) = {row.program_summary}

\* Two requests wrote the same id, and the stored text is not the one
\* generated last.
C5_Witness ==
    \E row \in table :
        \E r \in Reqs :
            /\ lastWriter[row.id] # 0
            /\ r # lastWriter[row.id]
            /\ \E k \in CallsOf(log[r], "update") :
                   log[r][k].id = row.id /\ log[r][k].ok
            /\ AllGenerationsWritten(row.id)
            /\ row.program_summary # lastGen[row.id]
            /\ NonEmptyString(row.program_summary)

\* C6: POST /update-all responds 500 exactly when its listing call errors;
\* once the listing has succeeded the response is 200, whatever generation
\* and store-update failures the rows meet.
C6_BatchIs500OnlyOnListingError ==
    \A r \in Reqs :
        (kind[r] = "all" /\ Done(r)) =>
            /\ response[r].code = 500 <=> ~log[r][1].ok
            /\ log[r][1].ok => response[r].code = 200

\* A batch answered 200 after a generation failure and an update that
\* affected no row.
C6_Witness ==
    \E r \in Reqs :
        /\ kind[r] = "all"
        /\ Done(r)
        /\ response[r].code = 200
        /\ FailedCalls(log[r], "complete") # {}
        /\ \E k \in FailedCalls(log[r], "update") : log[r][k].n = 0

\* The listing succeeded and returned no row.
EmptyListing(r) ==
    /\ kind[r] = "all"
    /\ Done(r)
    /\ log[r][1].ok
    /\ log[r][1].n = 0

\* C7: when the listing of rows with null program_summary is empty, POST
\* /update-all responds 200 with status "No competitors found needing
\* updates" and issues no completion call and no store update.
C7_EmptyListingShortCircuits ==
    \A r \in Reqs :
        EmptyListing(r) =>
            /\ response[r].code = 200
            /\ response[r].status = "No competitors found needing updates"
            /\ DOMAIN response[r] = {"code", "status"}
            /\ CallsOf(log[r], "complete") = {}
            /\ CallsOf(log[r], "update") = {}

\* An empty listing over a table that still has rows, all with a summary.
C7_Witness ==
    \E r \in Reqs :
        /\ EmptyListing(r)
        /\ table # {}
        /\ \A row \in table : row.program_summary # Null

\* The ids of the rows whose update by request r succeeded, in listing order.
WrittenInListingOrder(r) ==
    SelectSeq(IdsOf(data[r]),
              LAMBDA i : \E k \in CallsOf(log[r], "update") :
                             log[r][k].ok /\ log[r][k].id = i)

\* C8: within one POST /update-all, rows are processed one at a time in the
\* order of the listing: the calls for a row follow all calls for the rows
\* before it, the generation call for row i+1 is issued only after row i was
\* written or failed, and updated_competitors is the listing order restricted
\* to the rows that succeeded.
C8_BatchIsSequentialInListingOrder ==
    \A r \in Reqs :
        kind[r] = "all" =>
            LET l == log[r]
            IN  /\ \A k \in DOMAIN l : k > 1 =>
                       /\ l[k].i \in DOMAIN data[r]
                       /\ l[k].id = data[r][l[k].i].id
                /\ \A j, k \in DOMAIN l : (1 < j /\ j < k) =>
                       /\ l[j].i <= l[k].i
                       /\ l[j].i = l[k].i =>
                              l[j].op = "complete" /\ l[k].op = "update"
                /\ \A k \in CallsOf(l, "complete") :
                       IF l[k].i = 1 THEN k = 2
                       ELSE /\ l[k - 1].i = l[k].i - 1
                            /\ \/ l[k - 1].op = "update"
                               \/ l[k - 1].op = "complete" /\ ~l[k - 1].ok
                /\ IdsOf(updated_competitors[r]) = WrittenInListingOrder(r)
                /\ (Done(r) /\ log[r][1].ok /\ log[r][1].n > 0) =>
                       response[r].updated_competitors = updated_competitors[r]

\* A batch of two rows, both written.
C8_Witness ==
    \E r \in Reqs :
        /\ kind[r] = "all"
        /\ Done(r)
        /\ Len(data[r]) = 2
        /\ Len(response[r].updated_competitors) = 2

\* C9: nothing is retried: a request issues at most one completion call and
\* at most one store update per row it works on (one row for /update-single,
\* each listed row for /update-all), whether they succeed or fail, and an
\* update for a row is issued only after that row's completion call succeeded.
C9_NoRetry ==
    \A r \in Reqs :
        LET l == log[r]
        IN  /\ \A j, k \in CallsOf(l, "complete") : l[j].i = l[k].i => j = k
            /\ \A j, k \in CallsOf(l, "update") : l[j].i = l[k].i => j = k
            /\ kind[r] = "single" =>
                   /\ Cardinality(CallsOf(l, "complete")) <= 1
                   /\ Cardinality(CallsOf(l, "update")) <= 1
            /\ \A k \in CallsOf(l, "update") :
                   \E j \in CallsOf(l, "complete") :
                       j < k /\ l[j].i = l[k].i /\ l[j].ok

\* A finished batch that met a failed completion call and a failed update.
C9_Witness ==
    \E r \in Reqs :
        /\ kind[r] = "all"
        /\ Done(r)
        /\ FailedCalls(log[r], "complete") # {}
        /\ FailedCalls(log[r], "update") # {}

\* The rows request r may write: the row of its path id, or the listed rows.
MayWrite(r, id) ==
    IF kind[r] = "single" THEN id = competitor_id[r]
    ELSE \E i \in DOMAIN data[r] : data[r][i].id = id

\* C10: a step of a request changes no row's id or competitor_name, sets no
\* program_summary to null, and changes the program_summary only of the row
\* the request is processing: the row of the path id for /update-single, a
\* row returned by its listing for /update-all.
C10_WritesOnlyTheProcessedSummary ==
    [][\A r \in Reqs :
          log'[r] # log[r] =>
              /\ {row.id : row \in table'} = {row.id : row \in table}
              /\ \A row \in table :
                     \E new \in table' :
                         /\ new.id = row.id
                         /\ new.competitor_name = row.competitor_name
                         /\ new.program_summary # row.program_summary =>
                                /\ pc[r] = "write"
                                /\ MayWrite(r, row.id)
                                /\ row.id = Last(log'[r]).id
                                /\ new.program_summary # Null]_vars

\* A single update left the other row null, and a later batch left alone the
\* row that already had its summary when the batch listed.
C10_Witness ==
    \E r1, r2 \in Reqs :
        /\ kind[r1] = "single" /\ Done(r1) /\ response[r1].code = 200
        /\ kind[r2] = "all" /\ Done(r2) /\ response[r2].code = 200
        /\ Len(data[r2]) = 1
        /\ data[r2][1].id # competitor_id[r1]
        /\ lastWriter[competitor_id[r1]] = r1
        /\ \E row \in table :
               row.id = competitor_id[r1] /\ row.program_summary # Null

=============================================================================
